---------------------------- MODULE Spec2Model ----------------------------
(***************************************************************************)
(* A model of node-red-context-valkey (src/src/context.ts): the            *)
(* ValkeyContext store facade, the two Lua scripts it ships, and the       *)
(* Redis/Valkey backend the store instances share.                         *)
(*                                                                         *)
(* Strings that the code splits, joins or pattern-matches (scopes, keys,   *)
(* key prefixes, remote keys) are sequences of atoms: ":" and "." are the  *)
(* separator characters, "*" is the glob wildcard, every other atom is a   *)
(* non-empty run of ordinary characters. The empty string is <<>>.         *)
(*                                                                         *)
(* A JSON text is represented by the tree it denotes, wrapped in a record  *)
(* that says whether the stored string is the plain text or the            *)
(* "gzip:"-marked base64 envelope of it. JavaScript values, JSON texts and *)
(* Lua values are three different representations; the conversions between *)
(* them (stringify, JSON.parse, cjson.decode, cjson.encode) are operators. *)
(***************************************************************************)
EXTENDS Integers, Sequences, FiniteSets, TLC

VARIABLES
    db,                  \* the backend: remote key -> stored string
    client,              \* per store: this.client (NULL or a connection handle)
    keyPrefix,           \* per store: this.keyPrefix, normalised by the constructor
    compressionEnabled,  \* per store: this.compressionEnabled
    call,                \* per caller: the call in progress or last completed
    sets                 \* the number of set calls made so far

vars == <<db, client, keyPrefix, compressionEnabled, call, sets>>

(***************************************************************************)
(* Strings as atom sequences                                               *)
(***************************************************************************)
SEP == ":"
DOT == "."
STAR == "*"

\* The number of characters of a string
RECURSIVE StrLen(_)
StrLen(s) == IF s = <<>> THEN 0 ELSE Len(Head(s)) + StrLen(Tail(s))

\* The least index of atom c in s, or 0
RECURSIVE IndexOf(_, _)
IndexOf(s, c) ==
    IF s = <<>> THEN 0
    ELSE IF Head(s) = c THEN 1
    ELSE LET r == IndexOf(Tail(s), c) IN IF r = 0 THEN 0 ELSE r + 1

\* String.prototype.split(sep) for a one-character separator
RECURSIVE Split(_, _)
Split(s, sep) ==
    LET i == IndexOf(s, sep) IN
    IF i = 0 THEN <<s>>
    ELSE <<SubSeq(s, 1, i - 1)>> \o Split(SubSeq(s, i + 1, Len(s)), sep)

\* Array.prototype.join(sep)
RECURSIVE Join(_, _)
Join(parts, sep) ==
    IF parts = <<>> THEN <<>>
    ELSE IF Len(parts) = 1 THEN parts[1]
    ELSE parts[1] \o <<sep>> \o Join(Tail(parts), sep)

StartsWith(s, pre) == Len(pre) <= Len(s) /\ SubSeq(s, 1, Len(pre)) = pre
EndsWith(s, c) == s # <<>> /\ s[Len(s)] = c

\* Lua: for part in string.gmatch(path, "[^.]+") -- the maximal non-empty runs
Gmatch(path) == SelectSeq(Split(path, DOT), LAMBDA part : part # <<>>)

\* Redis KEYS glob matching; "*" matches any run of characters
RECURSIVE GlobMatch(_, _)
GlobMatch(pat, s) ==
    IF pat = <<>> THEN s = <<>>
    ELSE IF Head(pat) = STAR
         THEN \E n \in 0..Len(s) : GlobMatch(Tail(pat), SubSeq(s, n + 1, Len(s)))
         ELSE s # <<>> /\ Head(s) = Head(pat) /\ GlobMatch(Tail(pat), Tail(s))

(***************************************************************************)
(* JSON values (JavaScript side)                                           *)
(***************************************************************************)
Undefined == [t |-> "undefined"]
Null == [t |-> "null"]
Num(n) == [n |-> n, t |-> "num"]
Str(n) == [n |-> n, t |-> "str"]          \* a string value of n characters
Arr(e) == [t |-> "arr", e |-> e]          \* e: sequence of values
Obj(f) == [t |-> "obj", f |-> f]          \* f: key string -> value
EmptyMap == [k \in {} |-> Null]
Field(k, v) == [x \in {k} |-> v]          \* the one-field map {k: v}
EmptyArr == Arr(<<>>)
EmptyObj == Obj(EmptyMap)

\* f with key k bound to v
Put(f, k, v) == [x \in DOMAIN f \cup {k} |-> IF x = k THEN v ELSE f[x]]

\* The sum of g over a finite set T
RECURSIVE SumOver(_, _)
SumOver(T, g) ==
    IF T = {} THEN 0
    ELSE LET x == CHOOSE y \in T : TRUE IN g[x] + SumOver(T \ {x}, g)

\* The number of decimal digits of n >= 0
RECURSIVE Digits(_)
Digits(n) == IF n < 10 THEN 1 ELSE 1 + Digits(n \div 10)

\* serialized.length: the number of characters of the JSON text of v
RECURSIVE SerializedLength(_)
SerializedLength(v) ==
    CASE v.t = "null" -> 4
      [] v.t = "num" -> Digits(v.n)
      [] v.t = "str" -> v.n + 2
      [] v.t = "arr" ->
            2 + SumOver(DOMAIN v.e, [i \in DOMAIN v.e |-> SerializedLength(v.e[i])])
              + (IF Len(v.e) > 1 THEN Len(v.e) - 1 ELSE 0)
      [] v.t = "obj" ->
            2 + SumOver(DOMAIN v.f,
                        [k \in DOMAIN v.f |-> StrLen(k) + 3 + SerializedLength(v.f[k])])
              + (IF Cardinality(DOMAIN v.f) > 1 THEN Cardinality(DOMAIN v.f) - 1 ELSE 0)

(***************************************************************************)
(* Stored strings                                                          *)
(***************************************************************************)
COMPRESSION_THRESHOLD == 1024
COMPRESSION_PREFIX == "gzip:"

\* The JSON text of tree j
PlainText(j) == [marker |-> "", body |-> j]
\* COMPRESSION_PREFIX + base64(gzip(JSON text of j))
Envelope(j) == [marker |-> COMPRESSION_PREFIX, body |-> j]

\* json-stringify-safe on a JSON value
stringify(v) == PlainText(v)

\* JSON.parse: a string that starts with the marker is no JSON text
JSONparse(text) ==
    IF text.marker = "" THEN [v |-> text.body, ok |-> TRUE]
    ELSE [v |-> Undefined, ok |-> FALSE]

\* gzipAsync + toString('base64') behind the marker
compress(serialized) == Envelope(serialized.body)

decompressIfNeeded(value) ==
    IF value.marker = COMPRESSION_PREFIX THEN PlainText(value.body) ELSE value

(***************************************************************************)
(* Lua values and the backend's cjson library                              *)
(*                                                                         *)
(* A Lua table has an array part (keys 1..n) and a hash part (string       *)
(* keys). cjson.decode gives a JSON array a table with only an array part  *)
(* and a JSON object a table with only a hash part; an empty array and an  *)
(* empty object both decode to the empty table. cjson.encode writes a      *)
(* table as an array only when it has no hash part and is not empty.       *)
(***************************************************************************)
LTable(a, h) == [t |-> "table", a |-> a, h |-> h]
LEmpty == LTable(<<>>, EmptyMap)

RECURSIVE cjsonDecodeValue(_)
cjsonDecodeValue(j) ==
    CASE j.t = "arr" -> LTable([i \in DOMAIN j.e |-> cjsonDecodeValue(j.e[i])], EmptyMap)
      [] j.t = "obj" -> LTable(<<>>, [k \in DOMAIN j.f |-> cjsonDecodeValue(j.f[k])])
      [] OTHER -> j       \* null (cjson.null), numbers and strings

\* cjson.decode of a stored string: an error when it is not a JSON text
cjsonDecode(text) ==
    IF text.marker = "" THEN [v |-> cjsonDecodeValue(text.body), ok |-> TRUE]
    ELSE [v |-> Null, ok |-> FALSE]

\* tostring(i) for an array index
IndexKey(i) == <<ToString(i)>>

RECURSIVE cjsonEncodeValue(_)
cjsonEncodeValue(l) ==
    IF l.t # "table" THEN l
    ELSE IF DOMAIN l.h = {} /\ l.a # <<>>
         THEN Arr([i \in DOMAIN l.a |-> cjsonEncodeValue(l.a[i])])
         ELSE LET idx == {IndexKey(i) : i \in DOMAIN l.a}
                  pos(k) == CHOOSE i \in DOMAIN l.a : IndexKey(i) = k
              IN  Obj([k \in DOMAIN l.h \cup idx |->
                          IF k \in DOMAIN l.h THEN cjsonEncodeValue(l.h[k])
                          ELSE cjsonEncodeValue(l.a[pos(k)])])

cjsonEncode(l) == PlainText(cjsonEncodeValue(l))

\* type(current[part]) == "table", for a table `current` and a string key
IsTableAt(current, part) == part \in DOMAIN current.h /\ current.h[part].t = "table"

\* The navigate/create loop and the final assignment of setNestedScript, on
\* the table `current` (parts is not empty)
RECURSIVE LuaAssign(_, _, _)
LuaAssign(current, parts, decodedValue) ==
    IF Len(parts) = 1
    THEN LTable(current.a, Put(current.h, parts[1], decodedValue))
    ELSE LET next == IF IsTableAt(current, parts[1]) THEN current.h[parts[1]] ELSE LEmpty
         IN  LTable(current.a,
                    Put(current.h, parts[1], LuaAssign(next, Tail(parts), decodedValue)))

\* setNestedScript: EVAL with KEYS[1] = key, ARGV = path, value, on store d.
\* The result: the reply (1, or a script error) and the backend afterwards.
ScriptError == "ERR script"
setNestedScript(d, key, path, value) ==
    LET existing == IF key \in DOMAIN d THEN cjsonDecode(d[key])
                    ELSE [v |-> LEmpty, ok |-> TRUE]
        data == existing.v
        parts == Gmatch(path)
        decoded == cjsonDecode(value)
    IN  IF \/ ~existing.ok              \* cjson.decode(existing) raises
           \/ data.t # "table"          \* indexing a number, a string or cjson.null
           \/ parts = <<>>              \* current[nil] = ...: index is nil
           \/ ~decoded.ok
        THEN [db |-> d, err |-> ScriptError, reply |-> Null]
        ELSE [db |-> Put(d, key, cjsonEncode(LuaAssign(data, parts, decoded.v))), err |-> "",
              reply |-> Num(1)]

\* The navigate loop and the final `current[finalKey] = nil` of
\* deleteNestedScript on the table `current` (parts is not empty): whether
\* the loop reached the parent, and the table afterwards
RECURSIVE LuaDelete(_, _)
LuaDelete(current, parts) ==
    IF Len(parts) = 1
    THEN [v |-> LTable(current.a, [k \in DOMAIN current.h \ {parts[1]} |-> current.h[k]]),
          reached |-> TRUE]
    ELSE IF ~IsTableAt(current, parts[1])
    THEN [v |-> current, reached |-> FALSE]
    ELSE LET sub == LuaDelete(current.h[parts[1]], Tail(parts))
         IN  [v |-> LTable(current.a, Put(current.h, parts[1], sub.v)),
              reached |-> sub.reached]

\* deleteNestedScript with the `if not existing` test left out, starting
\* from an empty table as setNestedScript does
deleteNestedScriptCreating(d, key, path) ==
    LET existing == IF key \in DOMAIN d THEN cjsonDecode(d[key])
                    ELSE [v |-> LEmpty, ok |-> TRUE]
        parts == Gmatch(path)
    IN  IF ~existing.ok \/ existing.v.t # "table" \/ parts = <<>>
        THEN [db |-> d, err |-> ScriptError, reply |-> Null]
        ELSE LET x == LuaDelete(existing.v, parts) IN
             IF ~x.reached THEN [db |-> d, err |-> "", reply |-> Num(0)]
             ELSE [db |-> Put(d, key, cjsonEncode(x.v)), err |-> "", reply |-> Num(1)]

\* deleteNestedScript: EVAL with KEYS[1] = key, ARGV = path, on store d
deleteNestedScript(d, key, path) ==
    IF key \notin DOMAIN d THEN [db |-> d, err |-> "", reply |-> Num(0)]
    ELSE
    LET existing == cjsonDecode(d[key])
        data == existing.v
        parts == Gmatch(path)
    IN  IF ~existing.ok                 \* cjson.decode(existing) raises
        THEN [db |-> d, err |-> ScriptError, reply |-> Null]
        ELSE IF data.t = "str" /\ Len(parts) > 1
        THEN [db |-> d, err |-> "", reply |-> Num(0)]   \* a string indexes to nil
        ELSE IF data.t # "table"        \* indexing a number or cjson.null,
                                        \* assigning into a string
        THEN [db |-> d, err |-> ScriptError, reply |-> Null]
        ELSE IF parts = <<>>            \* current[nil] = nil: index is nil
        THEN [db |-> d, err |-> ScriptError, reply |-> Null]
        ELSE LET x == LuaDelete(data, parts) IN
             IF ~x.reached THEN [db |-> d, err |-> "", reply |-> Num(0)]
             ELSE [db |-> Put(d, key, cjsonEncode(x.v)), err |-> "", reply |-> Num(1)]

(***************************************************************************)
(* The store facade: pure helpers                                          *)
(***************************************************************************)
NULL == "null"                            \* this.client = null
Redis == "Redis"                          \* this.client = new Redis(...)
Nil == [marker |-> "(nil)", body |-> Null]    \* the reply to GET of an absent key
OK == [r |-> "OK"]                        \* a status reply
PONG == [r |-> "PONG"]
None == [r |-> ""]                        \* no reply value
KeysReply(ks) == [keys |-> ks]            \* the reply to KEYS: a set of remote keys
NotConnected == "ValkeyContext not connected"
SyntaxError == "SyntaxError"
BackendError == "BackendError"
CallbackError == "thrown by the callback"

\* constructor: config.keyPrefix || 'nodered:', then a ':' appended if missing
NormalizePrefix(configured) ==
    LET p == IF configured = <<>> THEN <<"nodered", SEP>> ELSE configured
    IN  IF EndsWith(p, SEP) THEN p ELSE p \o <<SEP>>

parsePath(key) ==
    LET parts == Split(key, DOT) IN [parts |-> parts, isNested |-> Len(parts) > 1]

\* `${this.keyPrefix}context:${scope}:${key}`
buildKey(prefix, scope, key) == prefix \o <<"context", SEP>> \o scope \o <<SEP>> \o key

\* The canonical array index a property name denotes, or 0 if it is none
ArrayIndex(part, len) ==
    IF \E i \in 1..len : part = <<ToString(i - 1)>>
    THEN CHOOSE i \in 1..len : part = <<ToString(i - 1)>>
    ELSE 0

\* A function object, such as the methods a value inherits from its prototype
Function == [t |-> "function"]
\* Property names that every value other than null and undefined inherits
Inherited == {<<"toString">>}
LENGTH == <<"length">>

\* value[part] in JavaScript, for a value that is neither null nor undefined:
\* an own entry, the length of an array or string, a character of a string,
\* an inherited member, or undefined
Index(value, part) ==
    CASE value.t = "obj" ->
            IF part \in DOMAIN value.f THEN value.f[part]
            ELSE IF part \in Inherited THEN Function ELSE Undefined
      [] value.t = "arr" ->
            IF ArrayIndex(part, Len(value.e)) # 0
            THEN value.e[ArrayIndex(part, Len(value.e))]
            ELSE IF part = LENGTH THEN Num(Len(value.e))
            ELSE IF part \in Inherited THEN Function ELSE Undefined
      [] value.t = "str" ->
            IF ArrayIndex(part, value.n) # 0 THEN Str(1)
            ELSE IF part = LENGTH THEN Num(value.n)
            ELSE IF part \in Inherited THEN Function ELSE Undefined
      [] OTHER -> IF part \in Inherited THEN Function ELSE Undefined

\* The loop of getSingleValue over path.parts[1..]
RECURSIVE Navigate(_, _)
Navigate(value, parts) ==
    IF parts = <<>> THEN value
    ELSE IF value.t \in {"null", "undefined"} THEN Undefined
    ELSE Navigate(Index(value, Head(parts)), Tail(parts))

\* getSingleValue after the GET: rawValue is the reply (Nil when absent)
getSingleValue(key, rawValue) ==
    LET path == parsePath(key) IN
    IF rawValue = Nil THEN [err |-> "", val |-> Undefined]
    ELSE LET parsed == JSONparse(decompressIfNeeded(rawValue)) IN
         IF ~parsed.ok THEN [err |-> SyntaxError, val |-> Undefined]
         ELSE [err |-> "",
               val |-> IF path.isNested THEN Navigate(parsed.v, Tail(path.parts))
                       ELSE parsed.v]

\* finalValue with the threshold test off by one (>= for >)
finalValueAtThreshold(enabled, serialized) ==
    IF enabled /\ SerializedLength(serialized.body) >= COMPRESSION_THRESHOLD
    THEN compress(serialized) ELSE serialized

\* The value a flat set stores: compressed above the threshold
finalValue(enabled, serialized) ==
    IF enabled /\ SerializedLength(serialized.body) > COMPRESSION_THRESHOLD
    THEN compress(serialized) ELSE serialized

\* setSingleValue: the one command it sends to the backend
setSingleValue(prefix, enabled, scope, key, value) ==
    LET path == parsePath(key)
        redisKey == buildKey(prefix, scope, path.parts[1])
        serialized == stringify(value)
    IN  IF path.isNested
        THEN [path |-> Join(Tail(path.parts), DOT), value |-> serialized,
              key |-> redisKey, cmd |-> "EVAL"]
        ELSE [value |-> finalValue(enabled, serialized), key |-> redisKey, cmd |-> "SET"]

\* clean: the keys to delete among the scanned keys
keysToDelete(allNodeKeys, activeNodes) ==
    {key \in allNodeKeys :
        LET parts == Split(key, SEP) IN
        /\ Len(parts) >= 4
        /\ parts[Len(parts) - 2] = <<"node">>
        /\ parts[Len(parts) - 1] \notin activeNodes}

(***************************************************************************)
(* The backend: one command, executed atomically                           *)
(***************************************************************************)
Without(d, ks) == [k \in DOMAIN d \ ks |-> d[k]]

\* The reply to req and the backend afterwards
Execute(d, req) ==
    CASE req.cmd = "GET" ->
            [db |-> d, err |-> "", reply |-> IF req.key \in DOMAIN d THEN d[req.key] ELSE Nil]
      [] req.cmd = "SET" -> [db |-> Put(d, req.key, req.value), err |-> "", reply |-> OK]
      [] req.cmd = "EVAL" -> setNestedScript(d, req.key, req.path, req.value)
      [] req.cmd = "EVAL deleteNestedScript" -> deleteNestedScript(d, req.key, req.path)
      [] req.cmd = "KEYS" ->
            [db |-> d,
             err |-> "", reply |-> KeysReply({k \in DOMAIN d : GlobMatch(req.pattern, k)})]
      [] req.cmd = "DEL" -> [db |-> Without(d, req.keys), err |-> "", reply |-> OK]
      [] req.cmd = "PING" -> [db |-> d, err |-> "", reply |-> PONG]
      [] OTHER -> [db |-> d, err |-> "", reply |-> OK]   \* CONNECT, SCRIPT LOAD, QUIT

(***************************************************************************)
(* Calls                                                                   *)
(*                                                                         *)
(* call[c] is the call caller c has in progress, or its last completed     *)
(* one. stage "sent": a command is on its way to the backend; "replied":   *)
(* the reply is on its way back; "done": the callback has run (get, set,   *)
(* keys) or the promise has settled (delete, clean, open, close), with err *)
(* and val the outcome. sent lists the commands the call has sent so far.  *)
(* prior is a history field of a get: the successful set, if any, that was *)
(* the caller's call right before it. fetch holds, for a multi-key get,    *)
(* the getSingleValue call of each key. reports counts how many times the  *)
(* callback has been invoked (or the promise settled).                     *)
(***************************************************************************)
NoReq == [cmd |-> ""]
NoReply == [v |-> None, err |-> ""]
NoArg == <<>>
NoPrior == [op |-> "none"]

NewCall(op, s, scope, key, value, activeNodes) ==
    [value |-> value, key |-> key, err |-> "", reply |-> NoReply, scope |-> scope,
     val |-> Undefined, activeNodes |-> activeNodes, req |-> NoReq, op |-> op,
     store |-> s, stage |-> "done", sent |-> <<>>, prior |-> NoPrior, fetch |-> <<>>,
     reports |-> 0]

NoCall == NewCall("none", "", NoArg, NoArg, Undefined, {})

Send(r, req) == [r EXCEPT !.stage = "sent", !.req = req, !.reply = NoReply,
                          !.sent = Append(@, req.cmd)]
Finish(r, err, val) == [r EXCEPT !.stage = "done", !.req = NoReq, !.reply = NoReply,
                                 !.err = err, !.val = val, !.reports = @ + 1]

\* The caller has no call in progress, and no fetch of a multi-key get either
Idle(c) ==
    /\ call[c].stage = "done"
    /\ \A i \in DOMAIN call[c].fetch : call[c].fetch[i].stage \notin {"sent", "replied"}

\* The caller's last call, when it was a set that reported success
PriorSet(c) ==
    IF call[c].op = "set" /\ call[c].stage = "done" /\ call[c].err = ""
    THEN [value |-> call[c].value, key |-> call[c].key, scope |-> call[c].scope,
          op |-> "set", store |-> call[c].store]
    ELSE NoPrior
Replied(c, op, cmd) ==
    call[c].stage = "replied" /\ call[c].op = op /\ call[c].req.cmd = cmd

\* The list of context keys that keys() reports
KeyList(ks) == [t |-> "list", ks |-> ks]

(***************************************************************************)
(* get(scope, key, callback) with a single key                             *)
(***************************************************************************)
\* get without its `if (!this.client)` guard
GetUnguarded(c, s, scope, key) ==
    /\ Idle(c)
    /\ LET r == [NewCall("get", s, scope, key, Undefined, {}) EXCEPT !.prior = PriorSet(c)] IN
       call' = [call EXCEPT ![c] =
           Send(r, [key |-> buildKey(keyPrefix[s], scope, parsePath(key).parts[1]),
                    cmd |-> "GET"])]
    /\ UNCHANGED <<db, client, keyPrefix, compressionEnabled, sets>>

Get(c, s, scope, key) ==
    /\ Idle(c)
    /\ LET r == [NewCall("get", s, scope, key, Undefined, {}) EXCEPT !.prior = PriorSet(c)] IN
       call' = [call EXCEPT ![c] =
           IF client[s] = NULL THEN Finish(r, NotConnected, Undefined)
           ELSE Send(r, [key |-> buildKey(keyPrefix[s], scope, parsePath(key).parts[1]),
                         cmd |-> "GET"])]
    /\ UNCHANGED <<db, client, keyPrefix, compressionEnabled, sets>>

GetDone(c) ==
    /\ Replied(c, "get", "GET")
    /\ LET r == call[c]
           g == getSingleValue(r.key, r.reply.v)
       IN  call' = [call EXCEPT ![c] =
               IF r.reply.err # "" THEN Finish(r, r.reply.err, Undefined)
               ELSE Finish(r, g.err, g.val)]
    /\ UNCHANGED <<db, client, keyPrefix, compressionEnabled, sets>>

\* getOperation after the await when callback(null, value) throws: the catch
\* block invokes the callback again, with the error thrown
GetDoneThrows(c) ==
    /\ Replied(c, "get", "GET")
    /\ call[c].reply.err = ""
    /\ LET r == call[c]
           g == getSingleValue(r.key, r.reply.v)
       IN  /\ g.err = ""
           /\ call' = [call EXCEPT ![c] =
                  Finish(Finish(r, "", g.val), CallbackError, Undefined)]
    /\ UNCHANGED <<db, client, keyPrefix, compressionEnabled, sets>>

(***************************************************************************)
(* get(scope, [k1..kn], callback): Promise.all over one getSingleValue per *)
(* key. Each fetch sends its GET when the call is made; stage "fanout"     *)
(* lasts until the callback has run, which may be before every fetch has   *)
(* settled.                                                                *)
(***************************************************************************)
NewFetch(key, stage, req) ==
    [key |-> key, err |-> "", reply |-> NoReply, val |-> Undefined,
     req |-> req, stage |-> stage]

\* Promise.all over settled fetches that keeps going past a rejection
promiseAllSettled(fetch) ==
    IF \A i \in DOMAIN fetch : fetch[i].stage \in {"ok", "failed"}
    THEN [err |-> "", val |-> Arr([i \in DOMAIN fetch |-> fetch[i].val]),
          state |-> "fulfilled"]
    ELSE [err |-> "", val |-> Undefined, state |-> "pending"]

\* Promise.all: rejected as soon as one fetch has failed, fulfilled with the
\* values in key order when all have succeeded
promiseAll(fetch) ==
    IF \E i \in DOMAIN fetch : fetch[i].stage = "failed"
    THEN [err |-> fetch[CHOOSE i \in DOMAIN fetch : fetch[i].stage = "failed"].err,
          val |-> Undefined,
          state |-> "rejected"]
    ELSE IF \A i \in DOMAIN fetch : fetch[i].stage = "ok"
    THEN [err |-> "", val |-> Arr([i \in DOMAIN fetch |-> fetch[i].val]),
          state |-> "fulfilled"]
    ELSE [err |-> "", val |-> Undefined, state |-> "pending"]

\* The callback of a multi-key get, run when Promise.all has settled
Settle(r) ==
    LET p == promiseAll(r.fetch) IN
    IF r.stage # "fanout" \/ p.state = "pending" THEN r
    ELSE Finish(r, p.err, p.val)

GetMany(c, s, scope, keys) ==
    /\ Idle(c)
    /\ LET r == NewCall("mget", s, scope, NoArg, Undefined, {}) IN
       call' = [call EXCEPT ![c] =
           IF client[s] = NULL
           THEN Finish([r EXCEPT !.fetch = [i \in DOMAIN keys |->
                                               NewFetch(keys[i], "unsent", NoReq)]],
                       NotConnected, Undefined)
           ELSE Settle([r EXCEPT
                   !.stage = "fanout",
                   !.sent = [i \in DOMAIN keys |-> "GET"],
                   !.fetch = [i \in DOMAIN keys |->
                       NewFetch(keys[i], "sent",
                           [key |-> buildKey(keyPrefix[s], scope,
                                             parsePath(keys[i]).parts[1]),
                            cmd |-> "GET"])]])]
    /\ UNCHANGED <<db, client, keyPrefix, compressionEnabled, sets>>

\* The backend serving the GET of fetch i
FetchExec(c, i) ==
    /\ i \in DOMAIN call[c].fetch
    /\ call[c].fetch[i].stage = "sent"
    /\ LET x == Execute(db, call[c].fetch[i].req) IN
       /\ db' = x.db
       /\ call' = [call EXCEPT ![c].fetch[i].stage = "replied",
                               ![c].fetch[i].reply = [v |-> x.reply, err |-> x.err]]
    /\ UNCHANGED <<client, keyPrefix, compressionEnabled, sets>>

\* The backend, or the connection to it, failing the GET of fetch i
FetchFail(c, i) ==
    /\ i \in DOMAIN call[c].fetch
    /\ call[c].fetch[i].stage = "sent"
    /\ call' = [call EXCEPT ![c].fetch[i].stage = "replied",
                            ![c].fetch[i].reply = [v |-> None, err |-> BackendError]]
    /\ UNCHANGED <<db, client, keyPrefix, compressionEnabled, sets>>

\* getSingleValue of fetch i after its GET, then Promise.all and the callback
FetchDone(c, i) ==
    /\ i \in DOMAIN call[c].fetch
    /\ call[c].fetch[i].stage = "replied"
    /\ LET f == call[c].fetch[i]
           g == getSingleValue(f.key, f.reply.v)
           err == IF f.reply.err # "" THEN f.reply.err ELSE g.err
           settled == [f EXCEPT !.stage = IF err = "" THEN "ok" ELSE "failed",
                                !.err = err,
                                !.val = IF err = "" THEN g.val ELSE Undefined]
       IN  call' = [call EXCEPT ![c] = Settle([call[c] EXCEPT !.fetch[i] = settled])]
    /\ UNCHANGED <<db, client, keyPrefix, compressionEnabled, sets>>

(***************************************************************************)
(* set(scope, key, value, callback)                                        *)
(***************************************************************************)
MaxSets == 2            \* a behaviour makes at most this many set calls

Set(c, s, scope, key, value) ==
    /\ Idle(c)
    /\ sets < MaxSets
    /\ sets' = sets + 1
    /\ LET r == NewCall("set", s, scope, key, value, {}) IN
       call' = [call EXCEPT ![c] =
           IF client[s] = NULL THEN Finish(r, NotConnected, Undefined)
           ELSE Send(r, setSingleValue(keyPrefix[s], compressionEnabled[s],
                                       scope, key, value))]
    /\ UNCHANGED <<db, client, keyPrefix, compressionEnabled>>

SetDone(c) ==
    /\ call[c].stage = "replied" /\ call[c].op = "set"
    /\ call' = [call EXCEPT ![c] = Finish(call[c], call[c].reply.err, Undefined)]
    /\ UNCHANGED <<db, client, keyPrefix, compressionEnabled, sets>>

\* setOperation after the await when callback(null) throws: the catch block
\* invokes the callback again
SetDoneThrows(c) ==
    /\ call[c].stage = "replied" /\ call[c].op = "set" /\ call[c].reply.err = ""
    /\ call' = [call EXCEPT ![c] =
           Finish(Finish(call[c], "", Undefined), CallbackError, Undefined)]
    /\ UNCHANGED <<db, client, keyPrefix, compressionEnabled, sets>>

(***************************************************************************)
(* keys(scope, callback)                                                   *)
(***************************************************************************)
Keys(c, s, scope) ==
    /\ Idle(c)
    /\ LET r == NewCall("keys", s, scope, NoArg, Undefined, {}) IN
       call' = [call EXCEPT ![c] =
           IF client[s] = NULL THEN Finish(r, NotConnected, Undefined)
           ELSE Send(r, [cmd |-> "KEYS",
                         pattern |-> buildKey(keyPrefix[s], scope, <<STAR>>)])]
    /\ UNCHANGED <<db, client, keyPrefix, compressionEnabled, sets>>

\* redisKeys.map((k) => k.substring(prefix.length))
contextKeys(prefix, redisKeys) == {SubSeq(k, Len(prefix) + 1, Len(k)) : k \in redisKeys}

KeysDone(c) ==
    /\ Replied(c, "keys", "KEYS")
    /\ LET r == call[c]
           prefix == buildKey(keyPrefix[r.store], r.scope, <<>>)
       IN  call' = [call EXCEPT ![c] =
               IF r.reply.err # "" THEN Finish(r, r.reply.err, Undefined)
               ELSE Finish(r, "", KeyList(contextKeys(prefix, r.reply.v.keys)))]
    /\ UNCHANGED <<db, client, keyPrefix, compressionEnabled, sets>>

\* keysOperation after the await when callback(null, contextKeys) throws
KeysDoneThrows(c) ==
    /\ Replied(c, "keys", "KEYS")
    /\ call[c].reply.err = ""
    /\ LET r == call[c]
           prefix == buildKey(keyPrefix[r.store], r.scope, <<>>)
       IN  call' = [call EXCEPT ![c] =
               Finish(Finish(r, "", KeyList(contextKeys(prefix, r.reply.v.keys))),
                      CallbackError, Undefined)]
    /\ UNCHANGED <<db, client, keyPrefix, compressionEnabled, sets>>

(***************************************************************************)
(* delete(scope)                                                           *)
(***************************************************************************)
Delete(c, s, scope) ==
    /\ Idle(c)
    /\ LET r == NewCall("delete", s, scope, NoArg, Undefined, {}) IN
       call' = [call EXCEPT ![c] =
           IF client[s] = NULL THEN Finish(r, NotConnected, Undefined)
           ELSE Send(r, [cmd |-> "KEYS",
                         pattern |-> buildKey(keyPrefix[s], scope, <<STAR>>)])]
    /\ UNCHANGED <<db, client, keyPrefix, compressionEnabled, sets>>

\* after `await this.client.keys(pattern)`
DeleteScanned(c) ==
    /\ Replied(c, "delete", "KEYS")
    /\ LET r == call[c] IN
       call' = [call EXCEPT ![c] =
           IF r.reply.err # "" THEN Finish(r, r.reply.err, Undefined)
           ELSE IF r.reply.v.keys # {}
                THEN Send(r, [keys |-> r.reply.v.keys, cmd |-> "DEL"])
           ELSE Finish(r, "", Undefined)]
    /\ UNCHANGED <<db, client, keyPrefix, compressionEnabled, sets>>

\* after `await this.client.del(...keys)`
DeleteDone(c) ==
    /\ Replied(c, "delete", "DEL")
    /\ call' = [call EXCEPT ![c] = Finish(call[c], call[c].reply.err, Undefined)]
    /\ UNCHANGED <<db, client, keyPrefix, compressionEnabled, sets>>

(***************************************************************************)
(* clean(activeNodes)                                                      *)
(***************************************************************************)
Clean(c, s, activeNodes) ==
    /\ Idle(c)
    /\ LET r == NewCall("clean", s, NoArg, NoArg, Undefined, activeNodes) IN
       call' = [call EXCEPT ![c] =
           IF client[s] = NULL THEN Finish(r, NotConnected, Undefined)
           ELSE Send(r, [cmd |-> "KEYS",
                         pattern |-> buildKey(keyPrefix[s], <<"node", SEP, STAR>>, <<>>)])]
    /\ UNCHANGED <<db, client, keyPrefix, compressionEnabled, sets>>

CleanScanned(c) ==
    /\ Replied(c, "clean", "KEYS")
    /\ LET r == call[c]
           del == keysToDelete(r.reply.v.keys, r.activeNodes)
       IN  call' = [call EXCEPT ![c] =
               IF r.reply.err # "" THEN Finish(r, r.reply.err, Undefined)
               ELSE IF del # {} THEN Send(r, [keys |-> del, cmd |-> "DEL"])
               ELSE Finish(r, "", Undefined)]
    /\ UNCHANGED <<db, client, keyPrefix, compressionEnabled, sets>>

CleanDone(c) ==
    /\ Replied(c, "clean", "DEL")
    /\ call' = [call EXCEPT ![c] = Finish(call[c], call[c].reply.err, Undefined)]
    /\ UNCHANGED <<db, client, keyPrefix, compressionEnabled, sets>>

(***************************************************************************)
(* A client of the backend running deleteNestedScript, which open() loads  *)
(* and no method of the store calls                                        *)
(***************************************************************************)
NestedDelete(c, s, scope, key) ==
    /\ Idle(c)
    /\ client[s] # NULL
    /\ LET path == parsePath(key) IN
       call' = [call EXCEPT ![c] =
           Send(NewCall("nestedDelete", s, scope, key, Undefined, {}),
                [path |-> Join(Tail(path.parts), DOT),
                 key |-> buildKey(keyPrefix[s], scope, path.parts[1]),
                 cmd |-> "EVAL deleteNestedScript"])]
    /\ UNCHANGED <<db, client, keyPrefix, compressionEnabled, sets>>

NestedDeleteDone(c) ==
    /\ Replied(c, "nestedDelete", "EVAL deleteNestedScript")
    /\ call' = [call EXCEPT ![c] = Finish(call[c], call[c].reply.err, call[c].reply.v)]
    /\ UNCHANGED <<db, client, keyPrefix, compressionEnabled, sets>>

(***************************************************************************)
(* The backend serving the command of caller c                             *)
(***************************************************************************)
BackendExec(c) ==
    /\ call[c].stage = "sent"
    /\ LET x == Execute(db, call[c].req) IN
       /\ db' = x.db
       /\ call' = [call EXCEPT ![c].stage = "replied",
                               ![c].reply = [v |-> x.reply, err |-> x.err]]
    /\ UNCHANGED <<client, keyPrefix, compressionEnabled, sets>>

(***************************************************************************)
(* open() and close()                                                      *)
(***************************************************************************)
Open(c, s) ==
    /\ Idle(c)
    /\ client' = [client EXCEPT ![s] = Redis]
    /\ call' = [call EXCEPT ![c] =
           Send(NewCall("open", s, NoArg, NoArg, Undefined, {}), [cmd |-> "CONNECT"])]
    /\ UNCHANGED <<db, keyPrefix, compressionEnabled, sets>>

\* The command open() sends after the reply to cmd, "" after the last one
NextOpenCommand(req) ==
    CASE req.cmd = "CONNECT" -> [cmd |-> "PING"]
      [] req.cmd = "PING" -> [cmd |-> "SCRIPT LOAD", script |-> "setNestedScript"]
      [] req.cmd = "SCRIPT LOAD" /\ req.script = "setNestedScript" ->
            [cmd |-> "SCRIPT LOAD", script |-> "deleteNestedScript"]
      [] OTHER -> NoReq

\* after each await of open(): the next command, or the catch block
OpenStep(c) ==
    /\ call[c].stage = "replied" /\ call[c].op = "open"
    /\ LET r == call[c] IN
       call' = [call EXCEPT ![c] =
           IF r.reply.err # "" THEN Finish(r, r.reply.err, Undefined)
           ELSE IF r.req.cmd = "PING" /\ r.reply.v # PONG
                THEN Finish(r, "Redis connection verification failed", Undefined)
           ELSE IF NextOpenCommand(r.req) = NoReq THEN Finish(r, "", Undefined)
           ELSE Send(r, NextOpenCommand(r.req))]
    /\ UNCHANGED <<db, client, keyPrefix, compressionEnabled, sets>>

Close(c, s) ==
    /\ Idle(c)
    /\ LET r == NewCall("close", s, NoArg, NoArg, Undefined, {}) IN
       call' = [call EXCEPT ![c] =
           IF client[s] = NULL THEN Finish(r, "", Undefined)
           ELSE Send(r, [cmd |-> "QUIT"])]
    /\ UNCHANGED <<db, client, keyPrefix, compressionEnabled, sets>>

\* after `await this.client.quit()`
CloseDone(c) ==
    /\ Replied(c, "close", "QUIT")
    /\ client' = IF call[c].reply.err = "" THEN [client EXCEPT ![call[c].store] = NULL]
                 ELSE client
    /\ call' = [call EXCEPT ![c] = Finish(call[c], call[c].reply.err, Undefined)]
    /\ UNCHANGED <<db, keyPrefix, compressionEnabled, sets>>

\* The backend, or the connection to it, failing the command of caller c
BackendFail(c) ==
    /\ call[c].stage = "sent"
    /\ call' = [call EXCEPT ![c].stage = "replied",
                            ![c].reply = [v |-> None, err |-> BackendError]]
    /\ UNCHANGED <<db, client, keyPrefix, compressionEnabled, sets>>

(***************************************************************************)
(* Spec: one store, one caller; get and set of flat and nested keys under  *)
(* one scope                                                               *)
(***************************************************************************)
MaxSegments == 3        \* the longest key has this many segments

Segment == {<<"a">>, <<"b">>}

\* The sub-paths of 1..n segments, as dotted strings
RECURSIVE SubPaths(_)
SubPaths(n) ==
    IF n = 0 THEN {}
    ELSE Segment \cup {p \o <<DOT>> \o q : p \in SubPaths(n - 1), q \in Segment}

DataScopes == {<<"global">>}
DataKeys == {<<"k">>} \cup {<<"k", DOT>> \o p : p \in SubPaths(MaxSegments - 1)}
DataValues == {Num(1), Null, EmptyArr, Arr(<<Num(1)>>),
               Obj(Field(<<"a">>, EmptyArr))}

Init ==
    /\ db = EmptyMap
    /\ client = [s \in {"A"} |-> NULL]
    /\ keyPrefix = [s \in {"A"} |-> NormalizePrefix(<<>>)]
    /\ compressionEnabled = [s \in {"A"} |-> FALSE]
    /\ call = [c \in {"c1"} |-> NoCall]
    /\ sets = 0

Next ==
    \E c \in {"c1"}, s \in {"A"} :
        \/ client[s] = NULL /\ Open(c, s)
        \/ OpenStep(c)
        \/ \E scope \in DataScopes, key \in DataKeys : Get(c, s, scope, key)
        \/ GetDone(c)
        \/ \E scope \in DataScopes, key \in DataKeys, value \in DataValues :
              Set(c, s, scope, key, value)
        \/ SetDone(c)
        \/ BackendExec(c)

Spec == Init /\ [][Next]_vars

(***************************************************************************)
(* What get(scope, key) yields while the backend holds d                   *)
(***************************************************************************)
Lookup(d, redisKey) == IF redisKey \in DOMAIN d THEN d[redisKey] ELSE Nil
ReadBack(d, prefix, scope, key) ==
    getSingleValue(key, Lookup(d, buildKey(prefix, scope, parsePath(key).parts[1])))

\* Neither key path is a prefix of the other (so they are different)
Unrelated(k1, k2) ==
    LET p == parsePath(k1).parts
        q == parsePath(k2).parts
        n == IF Len(p) < Len(q) THEN Len(p) ELSE Len(q)
    IN  SubSeq(p, 1, n) # SubSeq(q, 1, n)

(***************************************************************************)
(* C1: a set that reports success, followed by a get of the same scope and *)
(* key with no write in between, yields a value deep-equal to the one set. *)
(* Fails: the nested set script turns an empty array into an empty object. *)
(***************************************************************************)
C1_RoundTrip ==
    \A c \in DOMAIN call :
        LET r == call[c] IN
        (/\ r.op = "get" /\ r.stage = "done"
         /\ r.prior.op = "set"
         /\ r.prior.scope = r.scope /\ r.prior.key = r.key /\ r.prior.store = r.store)
        => r.err = "" /\ r.val = r.prior.value

(***************************************************************************)
(* C10: a nested set changes only its leaf: every key path unrelated to    *)
(* the one written reads back, after the script ran, what it read before.  *)
(* Fails: the script re-encodes the whole document through cjson, so an    *)
(* empty array elsewhere in the document comes back as an empty object.    *)
(***************************************************************************)
ProbeKeys == DataKeys \cup {<<"k", DOT, "0">>, <<"k", DOT, "a", DOT, "0">>}

NestedSetRan(c) ==
    /\ call[c].op = "set" /\ call[c].stage = "sent" /\ call[c].req.cmd = "EVAL"
    /\ call'[c].stage = "replied" /\ call'[c].reply.err = ""

C10_NestedSetFrame ==
    [][\A c \in DOMAIN call :
          NestedSetRan(c) =>
              \A q \in ProbeKeys :
                  Unrelated(q, call[c].key) =>
                      ReadBack(db', keyPrefix[call[c].store], call[c].scope, q)
                        = ReadBack(db, keyPrefix[call[c].store], call[c].scope, q)]_vars

(***************************************************************************)
(* SpecCodec: one store with compression enabled or not; sets of values    *)
(* whose JSON text is shorter than, as long as, and longer than the        *)
(* compression threshold                                                   *)
(***************************************************************************)
CodecKeys == {<<"k">>, <<"j">>, <<"k", DOT, "a">>}
CodecValues ==
    {Num(1),
     Str(COMPRESSION_THRESHOLD - 3),                                \* 1023 characters
     Str(COMPRESSION_THRESHOLD - 2),                                \* 1024
     Str(COMPRESSION_THRESHOLD - 1),                                \* 1025
     Obj(Field(<<"a">>, Str(COMPRESSION_THRESHOLD - 8))),           \* 1024
     Obj(Field(<<"a">>, Str(COMPRESSION_THRESHOLD - 7)))}           \* 1025

InitCodec ==
    /\ db = EmptyMap
    /\ client = [s \in {"A"} |-> NULL]
    /\ keyPrefix = [s \in {"A"} |-> NormalizePrefix(<<>>)]
    /\ compressionEnabled \in [{"A"} -> BOOLEAN]
    /\ call = [c \in {"c1"} |-> NoCall]
    /\ sets = 0

NextCodec ==
    \E c \in {"c1"}, s \in {"A"} :
        \/ client[s] = NULL /\ Open(c, s)
        \/ OpenStep(c)
        \/ \E key \in CodecKeys : Get(c, s, <<"global">>, key)
        \/ GetDone(c)
        \/ \E key \in CodecKeys, value \in CodecValues : Set(c, s, <<"global">>, key, value)
        \/ SetDone(c)
        \/ BackendExec(c)

SpecCodec == InitCodec /\ [][NextCodec]_vars

IsFlat(key) == ~parsePath(key).isNested
RemoteKey(r) == buildKey(keyPrefix[r.store], r.scope, parsePath(r.key).parts[1])

(***************************************************************************)
(* C9: when a flat set has reported success, the stored string carries the *)
(* gzip: marker exactly when compression is enabled and the JSON text is   *)
(* longer than 1024 characters, and otherwise is the plain JSON text; and  *)
(* a get that follows a successful flat set yields the value set.          *)
(***************************************************************************)
C9_CompressionThreshold ==
    \A c \in DOMAIN call :
        LET r == call[c] IN
        /\ (r.op = "set" /\ r.stage = "done" /\ r.err = "" /\ IsFlat(r.key)) =>
              /\ RemoteKey(r) \in DOMAIN db
              /\ db[RemoteKey(r)].body = r.value
              /\ db[RemoteKey(r)].marker = COMPRESSION_PREFIX
                    <=> (compressionEnabled[r.store]
                           /\ SerializedLength(r.value) > COMPRESSION_THRESHOLD)
              /\ db[RemoteKey(r)].marker \in {COMPRESSION_PREFIX, ""}
        /\ (/\ r.op = "get" /\ r.stage = "done" /\ IsFlat(r.key)
            /\ r.prior.op = "set"
            /\ r.prior.scope = r.scope /\ r.prior.key = r.key /\ r.prior.store = r.store)
           => r.err = "" /\ r.val = r.prior.value

\* A get has returned a value that its preceding flat set stored compressed
C9_Witness ==
    \E c \in DOMAIN call :
        LET r == call[c] IN
        /\ r.op = "get" /\ r.stage = "done" /\ IsFlat(r.key)
        /\ r.prior.op = "set" /\ r.prior.key = r.key
        /\ SerializedLength(r.prior.value) = COMPRESSION_THRESHOLD + 1
        /\ db[RemoteKey(r)].marker = COMPRESSION_PREFIX
        /\ r.val = r.prior.value

(***************************************************************************)
(* SpecKeys: one store; flat sets under global, flow and node scopes, and  *)
(* keys, delete and clean over them. Node identities may contain the       *)
(* separator, and a key may be the empty string.                           *)
(***************************************************************************)
NodeIds == {<<"n1">>, <<"n2">>, <<"n1", SEP, "x">>, <<"node", SEP, "n1">>}
NodeScope(id) == <<"node", SEP>> \o id
KeyScopes == {<<"global">>, <<"flow", SEP, "f1">>} \cup {NodeScope(id) : id \in NodeIds}
KeySegments == {<<"k">>, <<>>}
KeyPrefixes == {<<>>, <<"app">>}          \* config.keyPrefix: not given, 'app'

InitKeys ==
    /\ db = EmptyMap
    /\ client = [s \in {"A"} |-> NULL]
    /\ keyPrefix \in {[s \in {"A"} |-> NormalizePrefix(p)] : p \in KeyPrefixes}
    /\ compressionEnabled = [s \in {"A"} |-> FALSE]
    /\ call = [c \in {"c1"} |-> NoCall]
    /\ sets = 0

NextKeys ==
    \E c \in {"c1"}, s \in {"A"} :
        \/ client[s] = NULL /\ Open(c, s)
        \/ OpenStep(c)
        \/ \E scope \in KeyScopes, key \in KeySegments : Set(c, s, scope, key, Num(1))
        \/ SetDone(c)
        \/ \E scope \in KeyScopes, key \in KeySegments : Get(c, s, scope, key)
        \/ GetDone(c)
        \/ \E scope \in KeyScopes : Keys(c, s, scope)
        \/ KeysDone(c)
        \/ \E scope \in KeyScopes : Delete(c, s, scope)
        \/ DeleteScanned(c)
        \/ DeleteDone(c)
        \/ \E activeNodes \in SUBSET NodeIds : Clean(c, s, activeNodes)
        \/ CleanScanned(c)
        \/ CleanDone(c)
        \/ BackendExec(c)

SpecKeys == InitKeys /\ [][NextKeys]_vars

\* The remote keys that hold a document set under `scope` through store s
KeysUnder(d, s, scope) ==
    {buildKey(keyPrefix[s], scope, seg) : seg \in KeySegments} \cap DOMAIN d
\* The top-level segments that hold a document set under `scope`
SegmentsUnder(d, s, scope) ==
    {seg \in KeySegments : buildKey(keyPrefix[s], scope, seg) \in DOMAIN d}

(***************************************************************************)
(* C3: when clean(activeNodes) has completed without error, no key set     *)
(* under a node scope whose identity is not in activeNodes remains. It is  *)
(* stated here for the identities that contain no ':' and for a non-empty  *)
(* top-level segment, the case in which a key names its node plainly.      *)
(* Fails: the scan pattern ends with ':', so it matches no key that has a  *)
(* non-empty top-level segment, and clean deletes none of them.            *)
(***************************************************************************)
PlainNodeIds == {id \in NodeIds : Len(id) = 1}

C3_CleanRemovesInactive ==
    \A c \in DOMAIN call :
        LET r == call[c] IN
        (r.op = "clean" /\ r.stage = "done" /\ r.err = "") =>
            \A id \in PlainNodeIds \ r.activeNodes :
                buildKey(keyPrefix[r.store], NodeScope(id), <<"k">>) \notin DOMAIN db

(***************************************************************************)
(* C4: no step of clean(activeNodes) removes or changes a key of a node    *)
(* scope whose identity is in activeNodes, or a key of the global or a     *)
(* flow scope, and none adds a key.                                        *)
(* Fails: clean takes the last-but-one ':'-separated part of a key as the  *)
(* node identity, which is wrong for an identity that contains ':'.        *)
(***************************************************************************)
Protected(d, s, activeNodes) ==
    UNION {KeysUnder(d, s, scope) :
              scope \in {<<"global">>, <<"flow", SEP, "f1">>}
                          \cup {NodeScope(id) : id \in activeNodes}}

C4_CleanFrame ==
    [][\A c \in DOMAIN call :
          (call[c].op = "clean" /\ call[c].stage = "sent" /\ call'[c].stage = "replied") =>
              /\ DOMAIN db' \subseteq DOMAIN db
              /\ \A k \in Protected(db, call[c].store, call[c].activeNodes) :
                    k \in DOMAIN db' /\ db'[k] = db[k]]_vars

(***************************************************************************)
(* C5: when keys(scope) has reported a list, the list is exactly the set   *)
(* of top-level segments that hold a document set under that scope.        *)
(* Fails: the scan pattern scope:* also matches the keys of every scope    *)
(* that starts with scope followed by ':'.                                 *)
(***************************************************************************)
C5_KeysExact ==
    \A c \in DOMAIN call :
        LET r == call[c] IN
        (r.op = "keys" /\ r.stage = "done" /\ r.err = "") =>
            r.val = KeyList(SegmentsUnder(db, r.store, r.scope))

(***************************************************************************)
(* C6: when delete(scope) has resolved, no key set under the scope         *)
(* remains and every get of the scope yields undefined; and delete sends   *)
(* a DEL only if the scope holds a key.                                    *)
(* Fails in its last part: the scan also finds the keys of a scope that    *)
(* starts with scope followed by ':', and delete then sends a DEL for a    *)
(* scope that has no key of its own.                                       *)
(***************************************************************************)
C6_DeleteScope ==
    \A c \in DOMAIN call :
        LET r == call[c] IN
        /\ (r.op = "delete" /\ r.stage = "done" /\ r.err = "") =>
              /\ KeysUnder(db, r.store, r.scope) = {}
              /\ \A key \in KeySegments :
                    ReadBack(db, keyPrefix[r.store], r.scope, key)
                       = [err |-> "", val |-> Undefined]
        /\ (r.op = "delete" /\ r.stage = "sent" /\ r.req.cmd = "DEL") =>
              KeysUnder(db, r.store, r.scope) # {}

(***************************************************************************)
(* SpecConc: two callers, each on either of two stores that share the      *)
(* backend and the key prefix, with their calls interleaved                *)
(***************************************************************************)
ConcKeys == {<<"k">>, <<"k", DOT, "a">>, <<"k", DOT, "b">>, <<"k", DOT, "a", DOT, "b">>}
ConcValues == {Num(1), Num(2), EmptyArr}

InitConc ==
    /\ db = EmptyMap
    /\ client = [s \in {"A", "B"} |-> NULL]
    /\ keyPrefix = [s \in {"A", "B"} |-> NormalizePrefix(<<>>)]
    /\ compressionEnabled = [s \in {"A", "B"} |-> FALSE]
    /\ call = [c \in {"c1", "c2"} |-> NoCall]
    /\ sets = 0

NextConc ==
    \E c \in {"c1", "c2"}, s \in {"A", "B"} :
        \/ client[s] = NULL /\ (\A c2 \in DOMAIN call : Idle(c2)) /\ Open(c, s)
        \/ OpenStep(c)
        \/ \E key \in ConcKeys, value \in ConcValues :
              client[s] # NULL /\ Set(c, s, <<"global">>, key, value)
        \/ SetDone(c)
        \/ BackendExec(c)

SpecConc == InitConc /\ [][NextConc]_vars

\* The nested set script has run for caller c and replied 1
NestedSetApplied(c) ==
    /\ call[c].op = "set" /\ call[c].stage = "replied"
    /\ call[c].req.cmd = "EVAL" /\ call[c].reply.err = ""

(***************************************************************************)
(* C2: when two nested sets to unrelated paths of one top-level key are in *)
(* progress at the same time and the script has run for both, the stored   *)
(* document is a JSON text and holds both leaves with the values written.  *)
(* Fails: no write is lost and the scripts never interleave, but a leaf    *)
(* written as an empty array is stored as an empty object (see C1).        *)
(***************************************************************************)
C2_ConcurrentNestedSets ==
    \A c1, c2 \in DOMAIN call :
        (/\ c1 # c2 /\ NestedSetApplied(c1) /\ NestedSetApplied(c2)
         /\ RemoteKey(call[c1]) = RemoteKey(call[c2])
         /\ Unrelated(call[c1].key, call[c2].key))
        => /\ JSONparse(Lookup(db, RemoteKey(call[c1]))).ok
           /\ \A c \in {c1, c2} :
                 ReadBack(db, keyPrefix[call[c].store], call[c].scope, call[c].key)
                    = [err |-> "", val |-> call[c].value]

(***************************************************************************)
(* SpecLife: one store, opened and closed, with backend commands that may  *)
(* fail                                                                    *)
(***************************************************************************)
InitLife ==
    /\ db = EmptyMap
    /\ client = [s \in {"A"} |-> NULL]
    /\ keyPrefix = [s \in {"A"} |-> NormalizePrefix(<<>>)]
    /\ compressionEnabled = [s \in {"A"} |-> FALSE]
    /\ call = [c \in {"c1"} |-> NoCall]
    /\ sets = 0

LifeScopes == {<<"global">>, <<"node", SEP, "n1">>}

NextLife ==
    \E c \in {"c1"}, s \in {"A"} :
        \/ Open(c, s)
        \/ OpenStep(c)
        \/ Close(c, s)
        \/ CloseDone(c)
        \/ \E scope \in LifeScopes, key \in {<<"k">>, <<>>} :
              Set(c, s, scope, key, Num(1))
        \/ SetDone(c)
        \/ \E scope \in LifeScopes : Get(c, s, scope, <<"k">>)
        \/ GetDone(c)
        \/ \E scope \in LifeScopes : Keys(c, s, scope)
        \/ KeysDone(c)
        \/ \E scope \in LifeScopes : Delete(c, s, scope)
        \/ DeleteScanned(c)
        \/ DeleteDone(c)
        \/ \E activeNodes \in SUBSET {<<"n1">>} : Clean(c, s, activeNodes)
        \/ CleanScanned(c)
        \/ CleanDone(c)
        \/ BackendExec(c)
        \/ BackendFail(c)

SpecLife == InitLife /\ [][NextLife]_vars

DataCalls == {"get", "set", "keys", "delete", "clean"}

\* Caller c makes a call at this step
Calls(c) == call[c].stage = "done" /\ call'[c] # call[c]

(***************************************************************************)
(* C7: a get, set, keys, delete or clean call made while the store is      *)
(* Closed (this.client is null) fails at once with the not-connected       *)
(* error, sends no command, and leaves the store Closed and the backend    *)
(* as it was.                                                              *)
(***************************************************************************)
C7_ClosedStoreRefuses ==
    [][\A c \in DOMAIN call :
          (/\ Calls(c)
           /\ call'[c].op \in DataCalls
           /\ client[call'[c].store] = NULL)
          => /\ call'[c].stage = "done"
             /\ call'[c].err = NotConnected
             /\ call'[c].sent = <<>>
             /\ client' = client
             /\ db' = db]_vars

\* A get was refused by a store that had been open (the backend holds a
\* document) and was closed again
C7_Witness ==
    \E c \in DOMAIN call :
        /\ call[c].op = "get" /\ call[c].stage = "done"
        /\ call[c].err = NotConnected /\ call[c].sent = <<>>
        /\ client[call[c].store] = NULL
        /\ DOMAIN db # {}

(***************************************************************************)
(* C8: when open() has rejected, the store is Closed: it holds no          *)
(* connection handle.                                                      *)
(* Fails: open() assigns this.client before it connects and its catch      *)
(* block rethrows without resetting it.                                    *)
(***************************************************************************)
C8_FailedOpenLeavesClosed ==
    \A c \in DOMAIN call :
        (call[c].op = "open" /\ call[c].stage = "done" /\ call[c].err # "")
        => client[call[c].store] = NULL

(***************************************************************************)
(* C11: for a fixed prefix, two different (scope, top-level segment) pairs *)
(* never address the same remote key, also when the scope or the segment   *)
(* contains ':'; so every stored document is the document of one pair.     *)
(* Fails: buildKey joins scope and segment with ':' and escapes neither,   *)
(* so (node:n1:x, "") and (node:n1, "x:") address the same remote key.     *)
(***************************************************************************)
AddressSegments == KeySegments \cup {<<"x", SEP>>}

\* The (scope, top-level segment) pairs that address remote key rk through store s
PairsAt(s, rk) ==
    {pair \in KeyScopes \X AddressSegments : buildKey(keyPrefix[s], pair[1], pair[2]) = rk}

C11_KeyMappingInjective ==
    \A s \in DOMAIN keyPrefix : \A rk \in DOMAIN db : Cardinality(PairsAt(s, rk)) <= 1

(***************************************************************************)
(* C12: for every key that clean has scanned, the node identity clean      *)
(* extracts is the identity of the node scope the key was set under, and   *)
(* the key is chosen for deletion exactly when that identity is not in     *)
(* activeNodes, also when the identity contains ':'.                       *)
(* Fails: clean splits the key at every ':' and takes the last part but    *)
(* one, which is only the tail of an identity that contains ':'.           *)
(***************************************************************************)
\* clean: the nodeId it reads from a scanned key, <<"?">> when the test of
\* the `if` fails and it reads none
ExtractedNodeId(key) ==
    LET parts == Split(key, SEP) IN
    IF Len(parts) >= 4 /\ parts[Len(parts) - 2] = <<"node">>
    THEN parts[Len(parts) - 1] ELSE <<"?">>

\* The node identities under whose scope key rk was set through store s
WrittenUnder(s, rk) ==
    {id \in NodeIds : \E seg \in KeySegments : buildKey(keyPrefix[s], NodeScope(id), seg) = rk}

C12_CleanExtractsIdentity ==
    \A c \in DOMAIN call :
        LET r == call[c] IN
        (Replied(c, "clean", "KEYS") /\ r.reply.err = "") =>
            \A rk \in r.reply.v.keys : \A id \in WrittenUnder(r.store, rk) :
                /\ ExtractedNodeId(rk) = id
                /\ rk \in keysToDelete(r.reply.v.keys, r.activeNodes) <=> id \notin r.activeNodes

(***************************************************************************)
(* SpecRead: one caller, two stores that share the backend and the key     *)
(* prefix; flat and nested sets of values of every JSON type, gets of      *)
(* present and absent paths, and backend commands that may fail            *)
(***************************************************************************)
ReadSetKeys == {<<"k">>, <<"k", DOT, "a">>}
ReadGetKeys == {<<"k">>, <<"j">>, <<"k", DOT, "a">>, <<"k", DOT, "a", DOT, "b">>,
                <<"k", DOT, "length">>, <<"k", DOT, "toString">>}
ReadValues == {Num(1), Null, Str(3), EmptyArr, Obj(Field(<<"a">>, Null))}

InitRead ==
    /\ db = EmptyMap
    /\ client = [s \in {"A", "B"} |-> NULL]
    /\ keyPrefix = [s \in {"A", "B"} |-> NormalizePrefix(<<>>)]
    /\ compressionEnabled = [s \in {"A", "B"} |-> FALSE]
    /\ call = [c \in {"c1"} |-> NoCall]
    /\ sets = 0

NextRead ==
    \E c \in {"c1"}, s \in {"A", "B"} :
        \/ client[s] = NULL /\ Open(c, s)
        \/ OpenStep(c)
        \/ \E key \in ReadSetKeys, value \in ReadValues :
              client[s] # NULL /\ Set(c, s, <<"global">>, key, value)
        \/ SetDone(c)
        \/ \E key \in ReadGetKeys : client[s] # NULL /\ Get(c, s, <<"global">>, key)
        \/ GetDone(c)
        \/ BackendExec(c)
        \/ call[c].op \in {"get", "set"} /\ BackendFail(c)

SpecRead == InitRead /\ [][NextRead]_vars

\* Every segment of parts names an entry of a container, from value downwards
RECURSIVE Resolves(_, _)
Resolves(value, parts) ==
    \/ parts = <<>>
    \/ /\ parts # <<>> /\ value.t = "obj" /\ Head(parts) \in DOMAIN value.f
       /\ Resolves(value.f[Head(parts)], Tail(parts))
    \/ /\ parts # <<>> /\ value.t = "arr" /\ ArrayIndex(Head(parts), Len(value.e)) # 0
       /\ Resolves(value.e[ArrayIndex(Head(parts), Len(value.e))], Tail(parts))

(***************************************************************************)
(* C13: a get whose GET the backend answered yields undefined and no error *)
(* when the top-level key is absent, and when the document exists but the  *)
(* nested path does not resolve in it (a segment is missing, or a value on *)
(* the way is null or no container); it reports an error only when the     *)
(* backend call or the decoding of the stored string failed.               *)
(* Fails: get indexes every value that is not null with value[segment], so *)
(* a string yields its length and its characters and every value yields    *)
(* the members it inherits.                                                *)
(***************************************************************************)
C13_GetUndefined ==
    [][\A c \in DOMAIN call :
          (Replied(c, "get", "GET") /\ call'[c].stage = "done") =>
              LET r == call[c]
                  answered == r.reply.err = ""
                  parsed == JSONparse(decompressIfNeeded(r.reply.v))
              IN  /\ (answered /\ r.reply.v = Nil) =>
                         call'[c].err = "" /\ call'[c].val = Undefined
                  /\ (answered /\ r.reply.v # Nil /\ parsed.ok
                        /\ ~Resolves(parsed.v, Tail(parsePath(r.key).parts))) =>
                         call'[c].err = "" /\ call'[c].val = Undefined
                  /\ call'[c].err # "" => (~answered \/ ~parsed.ok)]_vars

(***************************************************************************)
(* C15: once a set through one store has reported success, a get of the    *)
(* same scope and key that starts afterwards through any store on the same *)
(* backend, with no write in between, and that the backend answers, yields *)
(* the value set.                                                          *)
(* Fails: every get does read the backend and no store keeps a copy, but a *)
(* nested set stores an empty array as an empty object (see C1), so the    *)
(* value read is not the value written.                                    *)
(***************************************************************************)
C15_ReadYourWrites ==
    \A c \in DOMAIN call :
        LET r == call[c] IN
        (/\ r.op = "get" /\ r.stage = "done" /\ r.err # BackendError
         /\ r.prior.op = "set" /\ r.prior.scope = r.scope /\ r.prior.key = r.key)
        => r.err = "" /\ r.val = r.prior.value

(***************************************************************************)
(* SpecMulti: one store, one caller; flat and nested sets, and multi-key   *)
(* gets whose fetches the backend may answer in any order or fail          *)
(***************************************************************************)
MultiKeyLists ==
    {<<>>, <<(<<"k">>)>>, <<(<<"k">>), (<<"j">>)>>, <<(<<"j">>), (<<"k">>)>>,
     <<(<<"k", DOT, "a">>), (<<"k">>)>>}
MultiSetKeys == {<<"k">>, <<"j">>}
MultiValues == {Num(1), Obj(Field(<<"a">>, Num(2)))}

InitMulti ==
    /\ db = EmptyMap
    /\ client = [s \in {"A"} |-> NULL]
    /\ keyPrefix = [s \in {"A"} |-> NormalizePrefix(<<>>)]
    /\ compressionEnabled = [s \in {"A"} |-> FALSE]
    /\ call = [c \in {"c1"} |-> NoCall]
    /\ sets = 0

NextMulti ==
    \E c \in {"c1"}, s \in {"A"} :
        \/ client[s] = NULL /\ Open(c, s)
        \/ OpenStep(c)
        \/ \E key \in MultiSetKeys, value \in MultiValues :
              client[s] # NULL /\ Set(c, s, <<"global">>, key, value)
        \/ SetDone(c)
        \/ BackendExec(c)
        \/ \E keys \in MultiKeyLists : GetMany(c, s, <<"global">>, keys)
        \/ \E i \in 1..2 : FetchExec(c, i)
        \/ \E i \in 1..2 : FetchFail(c, i)
        \/ \E i \in 1..2 : FetchDone(c, i)

SpecMulti == InitMulti /\ [][NextMulti]_vars

(***************************************************************************)
(* C14: for a multi-key get made on an open store: as soon as the fetch of *)
(* one key has failed, the callback has run with an error and no value     *)
(* list; when every fetch has succeeded, the callback has run with no      *)
(* error and the list whose i-th element is the value of the i-th key; a   *)
(* fetch that succeeded holds the value of its key whatever became of its  *)
(* siblings, and a fetch that has not settled can still proceed when a     *)
(* sibling has failed and the callback has run.                            *)
(***************************************************************************)
C14_MultiGet ==
    \A c \in DOMAIN call :
        LET r == call[c]
            value(i) == ReadBack(db, keyPrefix[r.store], r.scope, r.fetch[i].key).val
        IN  (r.op = "mget" /\ r.err # NotConnected) =>
            /\ (\E i \in DOMAIN r.fetch : r.fetch[i].stage = "failed") =>
                  r.stage = "done" /\ r.err # "" /\ r.val = Undefined
            /\ (\A i \in DOMAIN r.fetch : r.fetch[i].stage = "ok") =>
                  /\ r.stage = "done" /\ r.err = ""
                  /\ r.val = Arr([i \in DOMAIN r.fetch |-> value(i)])
            /\ \A i \in DOMAIN r.fetch :
                  /\ r.fetch[i].stage = "ok" => r.fetch[i].val = value(i)
                  /\ r.fetch[i].stage = "sent" => ENABLED FetchExec(c, i)
                  /\ r.fetch[i].stage = "replied" => ENABLED FetchDone(c, i)

\* The callback has run with the error of one fetch, and the sibling fetch
\* has since returned the value stored at its key
C14_Witness ==
    \E c \in DOMAIN call :
        LET r == call[c] IN
        /\ r.op = "mget" /\ r.stage = "done" /\ r.err = BackendError
        /\ Len(r.fetch) = 2
        /\ \E i, j \in DOMAIN r.fetch :
              /\ r.fetch[i].stage = "failed"
              /\ r.fetch[j].stage = "ok" /\ r.fetch[j].val = Num(1)

(***************************************************************************)
(* SpecCallback: one store, one caller; get, set and keys whose backend    *)
(* command may fail and whose callback may throw when it is invoked with   *)
(* a result                                                                *)
(***************************************************************************)
InitCallback ==
    /\ db = EmptyMap
    /\ client = [s \in {"A"} |-> NULL]
    /\ keyPrefix = [s \in {"A"} |-> NormalizePrefix(<<>>)]
    /\ compressionEnabled = [s \in {"A"} |-> FALSE]
    /\ call = [c \in {"c1"} |-> NoCall]
    /\ sets = 0

CallbackKeys == {<<"k">>, <<"k", DOT, "a">>}

NextCallback ==
    \E c \in {"c1"}, s \in {"A"} :
        \/ client[s] = NULL /\ Open(c, s)
        \/ OpenStep(c)
        \/ \E key \in CallbackKeys, value \in {Num(1), Null} :
              Set(c, s, <<"global">>, key, value)
        \/ SetDone(c)
        \/ SetDoneThrows(c)
        \/ \E key \in CallbackKeys : Get(c, s, <<"global">>, key)
        \/ GetDone(c)
        \/ GetDoneThrows(c)
        \/ Keys(c, s, <<"global">>)
        \/ KeysDone(c)
        \/ KeysDoneThrows(c)
        \/ BackendExec(c)
        \/ BackendFail(c)

SpecCallback == InitCallback /\ [][NextCallback]_vars

(***************************************************************************)
(* C16: a get, set or keys call has invoked its callback exactly once when *)
(* it is over and not at all before; a reply of the backend, good or bad,  *)
(* can always be taken to the callback; and a failure of the backend       *)
(* command is what the callback receives as its error.                     *)
(* Fails: the callback is invoked with the result inside the try block, so *)
(* when it throws, the catch block invokes it a second time with the error *)
(* it threw.                                                               *)
(***************************************************************************)
C16_CallbackOnce ==
    \A c \in DOMAIN call :
        LET r == call[c] IN
        r.op \in {"get", "set", "keys"} =>
            /\ r.stage = "done" => r.reports = 1
            /\ r.stage # "done" => r.reports = 0
            /\ (r.stage = "replied" /\ r.op = "get") => ENABLED GetDone(c)
            /\ (r.stage = "replied" /\ r.op = "set") => ENABLED SetDone(c)
            /\ (r.stage = "replied" /\ r.op = "keys") => ENABLED KeysDone(c)
            /\ (r.stage = "done" /\ r.err # "") => r.val = Undefined

(***************************************************************************)
(* C17: whenever the backend has run the nested set script, for whatever   *)
(* document was stored at the key and a non-empty sub-path, the script has *)
(* returned 1 and the key holds a document.                                *)
(* Fails: the script indexes the decoded document as a table, which raises *)
(* an error when the document is a number, a string or null, and           *)
(* cjson.decode raises one when the key holds a compressed value.          *)
(***************************************************************************)
C17_NestedSetSucceeds ==
    \A c \in DOMAIN call :
        LET r == call[c] IN
        (r.op = "set" /\ r.stage = "replied" /\ r.req.cmd = "EVAL"
           /\ Gmatch(r.req.path) # <<>>)
        => /\ r.reply.err = "" /\ r.reply.v = Num(1)
           /\ r.req.key \in DOMAIN db

(***************************************************************************)
(* C18: when the nested set script has run and returned 1: every proper    *)
(* prefix of the sub-path leads to a container; where the document had no  *)
(* container there before, it is a new one that holds only the next        *)
(* segment; the value set is at the end of the sub-path; and a container   *)
(* that was on the path before still has its other entries.                *)
(* Fails: a Lua table that was decoded from an array and is given a string *)
(* key is encoded as an object keyed "1", "2", ..., so the entries of an   *)
(* array on the path move; and an empty array comes back as an empty       *)
(* object (see C10, C1).                                                   *)
(***************************************************************************)
IsContainer(v) == v.t \in {"obj", "arr"}

\* The value at the end of parts, through entries of containers only
RECURSIVE OwnAt(_, _)
OwnAt(v, parts) ==
    IF parts = <<>> THEN v
    ELSE IF Resolves(v, <<Head(parts)>>) THEN OwnAt(Index(v, Head(parts)), Tail(parts))
    ELSE Undefined

\* The property names of the entries of a container
EntryKeys(v) ==
    CASE v.t = "obj" -> DOMAIN v.f
      [] v.t = "arr" -> {<<ToString(i - 1)>> : i \in DOMAIN v.e}
      [] OTHER -> {}

C18_NestedSetWalk ==
    [][\A c \in DOMAIN call :
          NestedSetRan(c) =>
              LET rk == call[c].req.key
                  parts == Gmatch(call[c].req.path)
                  old == IF rk \in DOMAIN db THEN JSONparse(db[rk]).v ELSE EmptyObj
                  new == JSONparse(db'[rk]).v
                  pre(i) == SubSeq(parts, 1, i)
              IN  /\ \A i \in 1..(Len(parts) - 1) :
                        /\ IsContainer(OwnAt(new, pre(i)))
                        /\ ~IsContainer(OwnAt(old, pre(i))) =>
                              OwnAt(new, pre(i)) = Obj(Field(parts[i + 1],
                                                       OwnAt(new, pre(i + 1))))
                  /\ OwnAt(new, parts) = call[c].value
                  /\ \A i \in 0..(Len(parts) - 1) :
                        IsContainer(OwnAt(old, pre(i))) =>
                            \A e \in EntryKeys(OwnAt(old, pre(i))) \ {parts[i + 1]} :
                                OwnAt(new, pre(i) \o <<e>>) = OwnAt(old, pre(i) \o <<e>>)]_vars

(***************************************************************************)
(* SpecScript: one store, one caller; flat and nested sets that build      *)
(* documents, and runs of deleteNestedScript on present and absent keys    *)
(* and paths                                                               *)
(***************************************************************************)
ScriptSetKeys == {<<"k">>, <<"k", DOT, "a", DOT, "b">>}
ScriptValues == {Num(1), Str(3), Obj(Field(<<"a">>, Num(1))), Arr(<<Num(1)>>)}
ScriptDeleteKeys ==
    {<<"k", DOT, "a">>, <<"k", DOT, "b">>, <<"k", DOT, "a", DOT, "b">>,
     <<"j", DOT, "a">>, <<"j", DOT, "a", DOT, "b">>}

InitScript ==
    /\ db = EmptyMap
    /\ client = [s \in {"A"} |-> NULL]
    /\ keyPrefix = [s \in {"A"} |-> NormalizePrefix(<<>>)]
    /\ compressionEnabled = [s \in {"A"} |-> FALSE]
    /\ call = [c \in {"c1"} |-> NoCall]
    /\ sets = 0

NextScript ==
    \E c \in {"c1"}, s \in {"A"} :
        \/ client[s] = NULL /\ Open(c, s)
        \/ OpenStep(c)
        \/ \E key \in ScriptSetKeys, value \in ScriptValues :
              client[s] # NULL /\ Set(c, s, <<"global">>, key, value)
        \/ SetDone(c)
        \/ \E key \in ScriptDeleteKeys : NestedDelete(c, s, <<"global">>, key)
        \/ NestedDeleteDone(c)
        \/ BackendExec(c)

SpecScript == InitScript /\ [][NextScript]_vars

\* The backend runs deleteNestedScript for caller c at this step
NestedDeleteRuns(c) ==
    /\ call[c].op = "nestedDelete" /\ call[c].stage = "sent"
    /\ call'[c].stage = "replied"

(***************************************************************************)
(* C19: a run of deleteNestedScript that returns a number returns 1 when   *)
(* the entry the path names existed in its parent container, and the entry *)
(* is then gone; it returns 0 in every other case.                         *)
(* Fails: once the walk has reached the parent table the script assigns    *)
(* nil, writes the document back and returns 1 without looking whether the *)
(* entry was there.                                                        *)
(***************************************************************************)
C19_NestedDeleteReturn ==
    [][\A c \in DOMAIN call :
          NestedDeleteRuns(c) =>
              LET rk == call[c].req.key
                  parts == Gmatch(call[c].req.path)
                  existed == /\ rk \in DOMAIN db
                             /\ JSONparse(db[rk]).ok
                             /\ parts # <<>>
                             /\ Resolves(JSONparse(db[rk]).v, parts)
              IN  call'[c].reply.err = "" =>
                      /\ call'[c].reply.v = IF existed THEN Num(1) ELSE Num(0)
                      /\ existed => ~Resolves(JSONparse(db'[rk]).v, parts)]_vars

(***************************************************************************)
(* C20: a run of deleteNestedScript on a remote key that does not exist    *)
(* returns 0 and leaves the backend as it was: the key still does not      *)
(* exist.                                                                  *)
(***************************************************************************)
C20_NestedDeleteAbsentKey ==
    [][\A c \in DOMAIN call :
          (NestedDeleteRuns(c) /\ call[c].req.key \notin DOMAIN db) =>
              /\ call'[c].reply = [v |-> Num(0), err |-> ""]
              /\ db' = db
              /\ call[c].req.key \notin DOMAIN db']_vars

\* The script has returned 0 for a key that does not exist, while the
\* backend holds another document
C20_Witness ==
    \E c \in DOMAIN call :
        /\ call[c].op = "nestedDelete" /\ call[c].stage = "replied"
        /\ call[c].reply = [v |-> Num(0), err |-> ""]
        /\ call[c].req.key \notin DOMAIN db
        /\ DOMAIN db # {}

(***************************************************************************)
(* C21: a run of deleteNestedScript on an existing document and a path one *)
(* of whose intermediate segments is missing from the document, or holds a *)
(* value that is no container, returns 0 and leaves the backend as it was. *)
(* Fails: the script indexes the decoded document without testing that it  *)
(* is a table; when the document is a number or null, so that the first    *)
(* segment is missing, the script raises an error and returns nothing. The *)
(* backend is left as it was in every case.                                *)
(***************************************************************************)
\* An intermediate segment of parts does not lead to a container in value
BrokenPath(value, parts) ==
    \E i \in 1..(Len(parts) - 1) : ~IsContainer(OwnAt(value, SubSeq(parts, 1, i)))

C21_NestedDeleteBrokenPath ==
    [][\A c \in DOMAIN call :
          (/\ NestedDeleteRuns(c)
           /\ call[c].req.key \in DOMAIN db
           /\ JSONparse(db[call[c].req.key]).ok
           /\ BrokenPath(JSONparse(db[call[c].req.key]).v, Gmatch(call[c].req.path)))
          => /\ call'[c].reply = [v |-> Num(0), err |-> ""]
             /\ db' = db]_vars

(***************************************************************************)
(* SpecPath: one store, one caller; nested sets and gets whose keys have   *)
(* a leading, a trailing or a doubled dot, on documents that only nested   *)
(* sets created; the backend answers every command                         *)
(***************************************************************************)
PathKeys ==
    {<<"k", DOT, "a">>, <<"k", DOT, DOT, "a">>, <<"k", DOT, "a", DOT>>,
     <<"k", DOT>>, <<DOT, "a">>, <<"k", DOT, "a", DOT, DOT, "b">>}
PathValues == {Num(1), Num(2)}

InitPath ==
    /\ db = EmptyMap
    /\ client = [s \in {"A"} |-> NULL]
    /\ keyPrefix = [s \in {"A"} |-> NormalizePrefix(<<>>)]
    /\ compressionEnabled = [s \in {"A"} |-> FALSE]
    /\ call = [c \in {"c1"} |-> NoCall]
    /\ sets = 0

NextPath ==
    \E c \in {"c1"}, s \in {"A"} :
        \/ client[s] = NULL /\ Open(c, s)
        \/ OpenStep(c)
        \/ \E key \in PathKeys, value \in PathValues :
              client[s] # NULL /\ Set(c, s, <<"global">>, key, value)
        \/ SetDone(c)
        \/ \E key \in PathKeys : client[s] # NULL /\ Get(c, s, <<"global">>, key)
        \/ GetDone(c)
        \/ BackendExec(c)

SpecPath == InitPath /\ [][NextPath]_vars

(***************************************************************************)
(* C22: for a key with a leading, a trailing or a doubled dot, the nested  *)
(* set script walks the segments that parsePath produced after the first   *)
(* one, the empty ones included; no set and no get reports an error; and a *)
(* get of the key just set yields the value set.                           *)
(* Fails: the script splits the path with gmatch(path, "[^.]+"), which     *)
(* yields no empty segment, while get indexes the document with every      *)
(* segment of key.split('.'): the set of k..a writes at a, the get of k..a *)
(* reads under the empty name and yields undefined; and the set of "k."    *)
(* has no segment left to write at, so the script raises an error.         *)
(***************************************************************************)
C22_EmptySegments ==
    \A c \in DOMAIN call :
        LET r == call[c] IN
        /\ (r.op = "set" /\ r.stage = "sent" /\ r.req.cmd = "EVAL")
           => Gmatch(r.req.path) = Tail(parsePath(r.key).parts)
        /\ (r.op \in {"set", "get"} /\ r.stage = "done") => r.err = ""
        /\ (/\ r.op = "get" /\ r.stage = "done"
            /\ r.prior.op = "set" /\ r.prior.scope = r.scope /\ r.prior.key = r.key)
           => r.val = r.prior.value

(***************************************************************************)
(* C23: in every reachable state of a store with compression enabled or    *)
(* not, the string at each remote key decodes for both of its readers: get *)
(* (decompressIfNeeded, then JSON.parse) and the nested set script         *)
(* (cjson.decode); and where the document get decodes is an object or an   *)
(* array, a run of the nested set script on that key returns no error.     *)
(* Fails: only get removes the gzip: envelope. The script hands the stored *)
(* string to cjson.decode as it is, so after a flat set that stored the    *)
(* value compressed the script raises an error on that key.                *)
(***************************************************************************)
C23_StoredValueDecodable ==
    \A key \in DOMAIN db :
        LET parsed == JSONparse(decompressIfNeeded(db[key])) IN
        /\ parsed.ok
        /\ cjsonDecode(db[key]).ok
        /\ IsContainer(parsed.v)
           => setNestedScript(db, key, <<"a">>, stringify(Num(1))).err = ""

(***************************************************************************)
(* C24: the step in which the backend executes the DEL of delete(scope),   *)
(* the only step of delete that writes, leaves every key set under another *)
(* scope in place with its document, also under a scope that starts with   *)
(* scope followed by ':'.                                                  *)
(* Fails: the pattern of the scan is the scope followed by ":*", which     *)
(* also matches the keys of a scope that extends it: delete("node:n1")     *)
(* deletes the keys set under "node:n1:x".                                 *)
(***************************************************************************)
C24_DeleteFrame ==
    [][\A c \in DOMAIN call :
          (/\ call[c].op = "delete" /\ call[c].stage = "sent"
           /\ call[c].req.cmd = "DEL" /\ call'[c].stage = "replied")
          => \A scope \in KeyScopes \ {call[c].scope} :
                \A key \in KeysUnder(db, call[c].store, scope) :
                    key \in DOMAIN db' /\ db'[key] = db[key]]_vars

=============================================================================
